---- MODULE Spec2Model ----
(***************************************************************************)
(* Model of the Messaging facade of react-native-firebase                  *)
(* (src/src/modules/messaging/index.js).  The facade validates arguments,  *)
(* forwards calls to the native module and re-emits two native events on   *)
(* the process-wide SharedEventEmitter under public names.                 *)
(*                                                                         *)
(* State: the platform, the facades constructed so far (each with its      *)
(* owning app), the subscriptions held by SharedEventEmitter, the disposer *)
(* closures handed out by onMessage/onTokenRefresh, and, for the most      *)
(* recent operation, what was called, how it ended and the ordered list    *)
(* of effects it had on its collaborators (emitter, native module, user    *)
(* callbacks).                                                             *)
(***************************************************************************)
EXTENDS Naturals, Sequences, FiniteSets

VARIABLES platform, facades, subscriptions, disposers, call, outcome, effects

vars == <<platform, facades, subscriptions, disposers, call, outcome, effects>>

----------------------------------------------------------------------------
(* Bounds of the exploration *)

MaxFacades == 2
MaxRegistrations == 3

----------------------------------------------------------------------------
(* JavaScript values.  t is the kind of value, s its content, n the `next` *)
(* member of an object ("" absent, "notfn" present but not a function,     *)
(* otherwise the name of the function it holds).                           *)

Callbacks == {"f1", "f2"}

Undef == [t |-> "undefined", s |-> "", n |-> ""]
Null == [t |-> "null", s |-> "", n |-> ""]
Num == [t |-> "number", s |-> "42", n |-> ""]
Str(x) == [t |-> "string", s |-> x, n |-> ""]
Fn(f) == [t |-> "function", s |-> f, n |-> ""]
Obj(nxt) == [t |-> "object", s |-> "", n |-> nxt]
OutboundMessage(x) == [t |-> "RemoteMessage", s |-> x, n |-> ""]

\* new RemoteMessage(message) for an inbound native payload
RemoteMessage(payload) == [t |-> "RemoteMessage", s |-> payload, n |-> "inbound"]

\* remoteMessage.build(): throws when a required field is missing
BuildThrows(m) == m.s = "incomplete"

\* remoteMessage.build(): the native map of a complete message
Build(m) == [t |-> "object", s |-> m.s, n |-> "built"]

TypeOf(x) ==
  CASE x.t = "null" -> "object"
    [] x.t = "RemoteMessage" -> "object"
    [] OTHER -> x.t

InstanceOfRemoteMessage(x) == x.t = "RemoteMessage"

isUndefined(value) == TypeOf(value) = "undefined"

isString(value) == TypeOf(value) = "string"

isFunction(item) == TypeOf(item) = "function"

isObject(item) == item.t = "object"

\* item.next of an object
NextOf(item) ==
  IF item.n \in Callbacks THEN Fn(item.n)
  ELSE IF item.n = "notfn" THEN Num ELSE Undef

\* a || b
Truthy(x) == ~(x.t \in {"undefined", "null"} \/ (x.t = "string" /\ x.s = ""))
OrElse(a, b) == IF Truthy(a) THEN a ELSE b

----------------------------------------------------------------------------
(* Inputs *)

Platforms == {"ios", "android"}

\* the apps of the process, in the order their facades are constructed:
\* the default app, then secondary apps (one without a configured sender id)
Apps == << [name |-> "[DEFAULT]", messagingSenderId |-> Str("sender-1")],
           [name |-> "second", messagingSenderId |-> Undef],
           [name |-> "third", messagingSenderId |-> Str("sender-3")],
           [name |-> "fourth", messagingSenderId |-> Str("sender-4")] >>

TokenArgs == {Undef, Str(""), Str("custom"), Num, Null}

HandlerArgs == {Fn(f) : f \in Callbacks} \cup {Obj(f) : f \in Callbacks}
               \cup {Obj(""), Obj("notfn"), Undef, Null}

SendArgs == {OutboundMessage("complete"), OutboundMessage("incomplete"),
             Undef, Null, Num, Str("custom"), Fn("f1"), Obj("")}

Payloads == {"p1", "p2"}

UnsupportedArgs == {<< >>, <<Fn("f1")>>}

NATIVE_EVENTS == <<"messaging_message_received", "messaging_token_refreshed">>
PublicEvents == {"onMessage", "onTokenRefresh"}
Events == {NATIVE_EVENTS[1], NATIVE_EVENTS[2]} \cup PublicEvents

NAMESPACE == "messaging"

----------------------------------------------------------------------------
(* Records *)

NoArgs == << >>

Effect(kind, name, listener, reg, args) ==
  [kind |-> kind, name |-> name, listener |-> listener, reg |-> reg, args |-> args]

NativeCall(method, args) == Effect("native", method, "", 0, args)

Outcome(kind, error, value) == [kind |-> kind, error |-> error, value |-> value]

Returned(value) == Outcome("returned", << >>, value)
Threw(error) == Outcome("threw", error, "")
Rejected(error) == Outcome("rejected", error, "")

\* env: what the environment does during the call ("" when nothing matters)
CallIn(op, facade, args, env) ==
  [op |-> op, facade |-> facade, args |-> args, env |-> env]

Call(op, facade, args) == CallIn(op, facade, args, "")

----------------------------------------------------------------------------
(* SharedEventEmitter: for every event name, the subscriptions in the      *)
(* order they were added.  A subscription holds its listener and the       *)
(* number of the registration (or construction) that added it.             *)

Subscription(listener, reg) == [listener |-> listener, reg |-> reg]

AddListener(subs, event, listener, reg) ==
  [subs EXCEPT ![event] = Append(@, Subscription(listener, reg))]

\* removes every subscription of the event whose listener is `listener`
RemoveListener(subs, event, listener) ==
  [subs EXCEPT ![event] = SelectSeq(@, LAMBDA sub : sub.listener # listener)]

\* variant: the most recent subscription is called first
Emit_Reversed(subs, event, arg) ==
  [j \in 1..Len(subs[event]) |->
     LET sub == subs[event][Len(subs[event]) + 1 - j]
     IN Effect("invoke", event, sub.listener, sub.reg, <<arg>>)]

\* emit(event, arg): the listeners of the event are called in the order of
\* their subscriptions
Emit(subs, event, arg) ==
  [j \in 1..Len(subs[event]) |->
     Effect("invoke", event, subs[event][j].listener, subs[event][j].reg, <<arg>>)]

\* INTERNALS.STRINGS.ERROR_UNSUPPORTED_MODULE_METHOD(namespace, method)
ERROR_UNSUPPORTED_MODULE_METHOD(namespace, method) ==
  <<"firebase.", namespace, "().", method,
    "() is unsupported by the native Firebase SDKs.">>

----------------------------------------------------------------------------
(* constructor(app) *)

\* variant: the native payload is passed on without wrapping
MessageReceivedBridge_NoWrap(subs, message) ==
  Emit(subs, "onMessage", Str(message))

\* (message) => SharedEventEmitter.emit('onMessage', new RemoteMessage(message))
MessageReceivedBridge(subs, message) ==
  Emit(subs, "onMessage", RemoteMessage(message))

\* (token) => SharedEventEmitter.emit('onTokenRefresh', token)
TokenRefreshedBridge(subs, token) ==
  Emit(subs, "onTokenRefresh", Str(token))

\* variant: the native module is told before the subscriptions exist
ConstructorEffects_InitFirst(os, i) ==
  (IF os = "ios" THEN << NativeCall("jsInitialised", NoArgs) >> ELSE << >>)
  \o << Effect("addListener", "messaging_message_received", "bridge", i, NoArgs),
        Effect("addListener", "messaging_token_refreshed", "bridge", i, NoArgs) >>

\* variant: only the first facade subscribes to the native events
ConstructorEffects_SubscribeOnce(os, i) ==
  (IF i = 1
   THEN << Effect("addListener", "messaging_message_received", "bridge", i, NoArgs),
           Effect("addListener", "messaging_token_refreshed", "bridge", i, NoArgs) >>
   ELSE << >>)
  \o (IF os = "ios" THEN << NativeCall("jsInitialised", NoArgs) >> ELSE << >>)

\* the statements of the constructor, in program order; i is the number of
\* the facade under construction
ConstructorEffects(os, i) ==
  << Effect("addListener", "messaging_message_received", "bridge", i, NoArgs),
     Effect("addListener", "messaging_token_refreshed", "bridge", i, NoArgs) >>
  \o (IF os = "ios" THEN << NativeCall("jsInitialised", NoArgs) >> ELSE << >>)

RECURSIVE ApplyEmitterEffects(_, _)
ApplyEmitterEffects(subs, effs) ==
  IF effs = << >> THEN subs
  ELSE LET e == Head(effs)
           next == CASE e.kind = "addListener" ->
                          AddListener(subs, e.name, e.listener, e.reg)
                     [] e.kind = "removeListener" ->
                          RemoveListener(subs, e.name, e.listener)
                     [] OTHER -> subs
       IN ApplyEmitterEffects(next, Tail(effs))

Construct ==
  /\ Len(facades) < MaxFacades
  /\ Len(facades) < Len(Apps)
  /\ LET i == Len(facades) + 1
         app == Apps[i]
         effs == ConstructorEffects(platform, i)
     IN /\ facades' = Append(facades, app)
        /\ subscriptions' = ApplyEmitterEffects(subscriptions, effs)
        /\ effects' = effs
        /\ call' = Call("constructor", i, NoArgs)
        /\ outcome' = Returned("facade")
  /\ UNCHANGED <<platform, disposers>>

----------------------------------------------------------------------------
(* getToken / deleteToken *)

\* variant: the defaults replace only an undefined argument
getToken_DefaultOnlyUndefined(app, appName, senderId) ==
  IF ~isUndefined(appName) /\ ~isString(appName)
  THEN [outcome |-> Threw(<<"firebase.messaging().getToken(*) 'projectId' expected a string.">>),
        effects |-> << >>]
  ELSE IF ~isUndefined(senderId) /\ ~isString(senderId)
  THEN [outcome |-> Threw(<<"firebase.messaging().getToken(*) 'senderId' expected a string.">>),
        effects |-> << >>]
  ELSE [outcome |-> Returned("nativeResult"),
        effects |-> << NativeCall("getToken",
                         << IF isUndefined(appName) THEN Str(app.name) ELSE appName,
                            IF isUndefined(senderId) THEN app.messagingSenderId
                            ELSE senderId >>) >>]

getToken(app, appName, senderId) ==
  IF ~isUndefined(appName) /\ ~isString(appName)
  THEN [outcome |-> Threw(<<"firebase.messaging().getToken(*) 'projectId' expected a string.">>),
        effects |-> << >>]
  ELSE IF ~isUndefined(senderId) /\ ~isString(senderId)
  THEN [outcome |-> Threw(<<"firebase.messaging().getToken(*) 'senderId' expected a string.">>),
        effects |-> << >>]
  ELSE [outcome |-> Returned("nativeResult"),
        effects |-> << NativeCall("getToken",
                         << OrElse(appName, Str(app.name)),
                            OrElse(senderId, app.messagingSenderId) >>) >>]

\* variant: senderId is not validated
deleteToken_NoSenderCheck(app, appName, senderId) ==
  IF ~isUndefined(appName) /\ ~isString(appName)
  THEN [outcome |-> Threw(<<"firebase.messaging().deleteToken(*) 'projectId' expected a string.">>),
        effects |-> << >>]
  ELSE [outcome |-> Returned("nativeResult"),
        effects |-> << NativeCall("deleteToken",
                         << OrElse(appName, Str(app.name)),
                            OrElse(senderId, app.messagingSenderId) >>) >>]

deleteToken(app, appName, senderId) ==
  IF ~isUndefined(appName) /\ ~isString(appName)
  THEN [outcome |-> Threw(<<"firebase.messaging().deleteToken(*) 'projectId' expected a string.">>),
        effects |-> << >>]
  ELSE IF ~isUndefined(senderId) /\ ~isString(senderId)
  THEN [outcome |-> Threw(<<"firebase.messaging().deleteToken(*) 'senderId' expected a string.">>),
        effects |-> << >>]
  ELSE [outcome |-> Returned("nativeResult"),
        effects |-> << NativeCall("deleteToken",
                         << OrElse(appName, Str(app.name)),
                            OrElse(senderId, app.messagingSenderId) >>) >>]

GetToken(i, appName, senderId) ==
  /\ LET r == getToken(facades[i], appName, senderId)
     IN /\ outcome' = r.outcome
        /\ effects' = r.effects
  /\ call' = Call("getToken", i, <<appName, senderId>>)
  /\ UNCHANGED <<platform, facades, subscriptions, disposers>>

DeleteToken(i, appName, senderId) ==
  /\ LET r == deleteToken(facades[i], appName, senderId)
     IN /\ outcome' = r.outcome
        /\ effects' = r.effects
  /\ call' = Call("deleteToken", i, <<appName, senderId>>)
  /\ UNCHANGED <<platform, facades, subscriptions, disposers>>

----------------------------------------------------------------------------
(* onMessage / onTokenRefresh and the disposers they return *)

\* the callback a handler argument resolves to; "" when the argument is
\* neither a function nor an object with a `next` function
onMessageListener(nextOrObserver) ==
  IF isFunction(nextOrObserver) THEN nextOrObserver.s
  ELSE IF isObject(nextOrObserver) /\ isFunction(NextOf(nextOrObserver))
       THEN NextOf(nextOrObserver).s
       ELSE ""

\* variant: any object is taken as an observer
onTokenRefreshListener_AnyObject(nextOrObserver) ==
  IF isFunction(nextOrObserver) THEN nextOrObserver.s
  ELSE IF isObject(nextOrObserver) THEN NextOf(nextOrObserver).s ELSE ""

onTokenRefreshListener(nextOrObserver) ==
  IF isFunction(nextOrObserver) THEN nextOrObserver.s
  ELSE IF isObject(nextOrObserver) /\ isFunction(NextOf(nextOrObserver))
       THEN NextOf(nextOrObserver).s
       ELSE ""

\* the closure onMessage / onTokenRefresh returns: it remembers the event
\* and the listener, nothing else
Disposer(event, listener) == [event |-> event, listener |-> listener, called |-> FALSE]

\* reg is the number the new registration gets
onMessage(nextOrObserver, reg) ==
  LET listener == onMessageListener(nextOrObserver)
  IN IF listener = ""
     THEN [outcome |-> Threw(<<"Messaging.onMessage failed: First argument must be a function or observer object with a next function.">>),
           effects |-> << >>,
           disposer |-> << >>]
     ELSE [outcome |-> Returned("disposer"),
           effects |-> << Effect("addListener", "onMessage", listener, reg, NoArgs) >>,
           disposer |-> << Disposer("onMessage", listener) >>]

onTokenRefresh(nextOrObserver, reg) ==
  LET listener == onTokenRefreshListener(nextOrObserver)
  IN IF listener = ""
     THEN [outcome |-> Threw(<<"Messaging.onTokenRefresh failed: First argument must be a function or observer object with a next function.">>),
           effects |-> << >>,
           disposer |-> << >>]
     ELSE [outcome |-> Returned("disposer"),
           effects |-> << Effect("addListener", "onTokenRefresh", listener, reg, NoArgs) >>,
           disposer |-> << Disposer("onTokenRefresh", listener) >>]

\* calling a disposer: SharedEventEmitter.removeListener(event, listener)
DisposerEffects(d) ==
  << Effect("removeListener", d.event, d.listener, 0, NoArgs) >>

Register(op, nextOrObserver, r) ==
  /\ facades # << >>
  /\ Len(disposers) + Len(r.disposer) <= MaxRegistrations
  /\ outcome' = r.outcome
  /\ effects' = r.effects
  /\ subscriptions' = ApplyEmitterEffects(subscriptions, r.effects)
  /\ disposers' = disposers \o r.disposer
  /\ call' = Call(op, 0, <<nextOrObserver>>)
  /\ UNCHANGED <<platform, facades>>

OnMessage(nextOrObserver) ==
  Register("onMessage", nextOrObserver,
           onMessage(nextOrObserver, Len(disposers) + 1))

OnTokenRefresh(nextOrObserver) ==
  Register("onTokenRefresh", nextOrObserver,
           onTokenRefresh(nextOrObserver, Len(disposers) + 1))

Dispose(k) ==
  /\ LET effs == DisposerEffects(disposers[k])
     IN /\ subscriptions' = ApplyEmitterEffects(subscriptions, effs)
        /\ effects' = effs
  /\ disposers' = [disposers EXCEPT ![k].called = TRUE]
  /\ call' = Call("disposer", k, NoArgs)
  /\ outcome' = Returned("undefined")
  /\ UNCHANGED <<platform, facades>>

----------------------------------------------------------------------------
(* sendMessage; nativeThrows: whether the native module's sendMessage     *)
(* raises synchronously                                                    *)

\* variant: no try/catch around build and delegation
sendMessage_NoCatch(remoteMessage, nativeThrows) ==
  IF ~InstanceOfRemoteMessage(remoteMessage)
  THEN [outcome |-> Rejected(<<"Messaging:sendMessage expects a 'RemoteMessage' but got type ",
                               TypeOf(remoteMessage)>>),
        effects |-> << >>]
  ELSE IF BuildThrows(remoteMessage)
  THEN [outcome |-> Threw(<<"RemoteMessage: build failed">>), effects |-> << >>]
  ELSE IF nativeThrows
  THEN [outcome |-> Threw(<<"native sendMessage raised">>),
        effects |-> << NativeCall("sendMessage", <<Build(remoteMessage)>>) >>]
  ELSE [outcome |-> Returned("nativeResult"),
        effects |-> << NativeCall("sendMessage", <<Build(remoteMessage)>>) >>]

sendMessage(remoteMessage, nativeThrows) ==
  IF ~InstanceOfRemoteMessage(remoteMessage)
  THEN [outcome |-> Rejected(<<"Messaging:sendMessage expects a 'RemoteMessage' but got type ",
                               TypeOf(remoteMessage)>>),
        effects |-> << >>]
  ELSE IF BuildThrows(remoteMessage)
  THEN [outcome |-> Rejected(<<"RemoteMessage: build failed">>), effects |-> << >>]
  ELSE IF nativeThrows
  THEN [outcome |-> Rejected(<<"native sendMessage raised">>),
        effects |-> << NativeCall("sendMessage", <<Build(remoteMessage)>>) >>]
  ELSE [outcome |-> Returned("nativeResult"),
        effects |-> << NativeCall("sendMessage", <<Build(remoteMessage)>>) >>]

SendMessage(remoteMessage, nativeThrows) ==
  /\ facades # << >>
  /\ LET r == sendMessage(remoteMessage, nativeThrows)
     IN /\ outcome' = r.outcome
        /\ effects' = r.effects
  /\ call' = CallIn("sendMessage", 0, <<remoteMessage>>,
                  IF nativeThrows THEN "nativeThrows" ELSE "")
  /\ UNCHANGED <<platform, facades, subscriptions, disposers>>

----------------------------------------------------------------------------
(* the unsupported methods *)

setBackgroundMessageHandler(args) ==
  [outcome |-> Threw(ERROR_UNSUPPORTED_MODULE_METHOD("messaging",
                                                     "setBackgroundMessageHandler")),
   effects |-> << >>]

\* variant: a silent stub
useServiceWorker_Silent(args) ==
  [outcome |-> Returned("undefined"), effects |-> << >>]

useServiceWorker(args) ==
  [outcome |-> Threw(ERROR_UNSUPPORTED_MODULE_METHOD("messaging", "useServiceWorker")),
   effects |-> << >>]

SetBackgroundMessageHandler(args) ==
  /\ facades # << >>
  /\ LET r == setBackgroundMessageHandler(args)
     IN /\ outcome' = r.outcome
        /\ effects' = r.effects
        /\ subscriptions' = ApplyEmitterEffects(subscriptions, r.effects)
  /\ call' = Call("setBackgroundMessageHandler", 0, args)
  /\ UNCHANGED <<platform, facades, disposers>>

UseServiceWorker(args) ==
  /\ facades # << >>
  /\ LET r == useServiceWorker(args)
     IN /\ outcome' = r.outcome
        /\ effects' = r.effects
        /\ subscriptions' = ApplyEmitterEffects(subscriptions, r.effects)
  /\ call' = Call("useServiceWorker", 0, args)
  /\ UNCHANGED <<platform, facades, disposers>>

----------------------------------------------------------------------------
(* an inbound native event: every bridge subscribed to it runs, in order  *)

RECURSIVE FanOut(_, _, _, _)
FanOut(subs, event, payload, j) ==
  IF j > Len(subs[event]) THEN << >>
  ELSE (IF event = "messaging_message_received"
        THEN MessageReceivedBridge(subs, payload)
        ELSE TokenRefreshedBridge(subs, payload))
       \o FanOut(subs, event, payload, j + 1)

NativeEvent(event, payload) ==
  /\ Len(facades) >= 1
  /\ effects' = FanOut(subscriptions, event, payload, 1)
  /\ call' = Call(event, 0, <<Str(payload)>>)
  /\ outcome' = Returned("undefined")
  /\ UNCHANGED <<platform, facades, subscriptions, disposers>>

----------------------------------------------------------------------------

Init ==
  /\ platform \in Platforms
  /\ facades = << >>
  /\ subscriptions = [e \in Events |-> << >>]
  /\ disposers = << >>
  /\ call = Call("none", 0, NoArgs)
  /\ outcome = Outcome("none", << >>, "")
  /\ effects = << >>

Facades == 1..Len(facades)
NativeEventNames == {NATIVE_EVENTS[1], NATIVE_EVENTS[2]}

Next ==
  \/ Construct
  \/ \E i \in Facades, a \in TokenArgs, s \in TokenArgs : GetToken(i, a, s)
  \/ \E i \in Facades, a \in TokenArgs, s \in TokenArgs : DeleteToken(i, a, s)
  \/ \E m \in SendArgs, t \in BOOLEAN : SendMessage(m, t)
  \/ \E h \in HandlerArgs : OnMessage(h)
  \/ \E h \in HandlerArgs : OnTokenRefresh(h)
  \/ \E k \in 1..Len(disposers) : Dispose(k)
  \/ \E args \in UnsupportedArgs : SetBackgroundMessageHandler(args)
  \/ \E args \in UnsupportedArgs : UseServiceWorker(args)
  \/ \E e \in NativeEventNames, p \in Payloads : NativeEvent(e, p)

Spec == Init /\ [][Next]_vars

(* The calls that only validate and delegate leave the emitter and the     *)
(* disposers alone, and the listener operations never read the outcome of  *)
(* an earlier call, so the two families are explored separately.           *)

NextCalls ==
  \/ Construct
  \/ \E i \in Facades, a \in TokenArgs, s \in TokenArgs : GetToken(i, a, s)
  \/ \E i \in Facades, a \in TokenArgs, s \in TokenArgs : DeleteToken(i, a, s)
  \/ \E m \in SendArgs, t \in BOOLEAN : SendMessage(m, t)

SpecCalls == Init /\ [][NextCalls]_vars

NextEvents ==
  \/ Construct
  \/ \E h \in HandlerArgs : OnMessage(h)
  \/ \E h \in HandlerArgs : OnTokenRefresh(h)
  \/ \E k \in 1..Len(disposers) : Dispose(k)
  \/ \E args \in UnsupportedArgs : SetBackgroundMessageHandler(args)
  \/ \E args \in UnsupportedArgs : UseServiceWorker(args)
  \/ \E e \in NativeEventNames, p \in Payloads : NativeEvent(e, p)

SpecEvents == Init /\ [][NextEvents]_vars

----------------------------------------------------------------------------
(* Properties of the validating and delegating calls (SpecCalls)           *)

TokenOps == {"getToken", "deleteToken"}

\* a value that is neither undefined nor a string
BadTokenArg(x) == x.t \notin {"undefined", "string"}

NativeEffects == {a \in 1..Len(effects) : effects[a].kind = "native"}

\* C1: a getToken/deleteToken call in which appName or senderId is neither
\* undefined nor a string throws synchronously and issues no native call,
\* whatever the other argument is.
C1_InvalidTokenArgumentThrows ==
  (call.op \in TokenOps /\ (BadTokenArg(call.args[1]) \/ BadTokenArg(call.args[2])))
    => (outcome.kind = "threw" /\ outcome.error # << >> /\ NativeEffects = {})

\* deleteToken with a valid appName and a null senderId has thrown
C1_Witness ==
  /\ call.op = "deleteToken"
  /\ call.args = <<Str("custom"), Null>>
  /\ outcome.kind = "threw"

\* the argument the native call is expected to receive
ExpectedTokenArg(given, default) ==
  IF given.t = "string" /\ given.s # "" THEN given ELSE default

\* C10: a getToken/deleteToken call that passes validation issues exactly one
\* native call of the same name; its first argument is the caller's appName
\* when that is a non-empty string and the owning app's name otherwise, its
\* second the caller's senderId when that is a non-empty string and the
\* owning app's messagingSenderId otherwise; the native result is returned.
C10_TokenDelegation ==
  (call.op \in TokenOps /\ ~BadTokenArg(call.args[1]) /\ ~BadTokenArg(call.args[2]))
    => /\ outcome = Returned("nativeResult")
       /\ Len(effects) = 1
       /\ effects[1].kind = "native"
       /\ effects[1].name = call.op
       /\ effects[1].args =
            << ExpectedTokenArg(call.args[1], Str(Apps[call.facade].name)),
               ExpectedTokenArg(call.args[2], Apps[call.facade].messagingSenderId) >>

\* getToken on the second facade with an empty appName and a custom senderId
\* has delegated with the second app's name
C10_Witness ==
  /\ call.op = "getToken"
  /\ call.facade = 2
  /\ call.args = <<Str(""), Str("custom")>>
  /\ Len(effects) = 1
  /\ effects[1].args = <<Str("second"), Str("custom")>>

\* typeof, as the error message of sendMessage is expected to spell it
ExpectedTypeName(x) == IF x.t \in {"null", "object"} THEN "object" ELSE x.t

\* C4: sendMessage never throws synchronously.  With an argument that is not
\* a RemoteMessage it returns a rejection whose message names the type of
\* the argument and issues no native call; with a RemoteMessage, an
\* exception raised by build() or by the native sendMessage comes back as a
\* rejection, and otherwise the native result is returned.
C4_SendMessageNeverThrows ==
  call.op = "sendMessage"
    => /\ outcome.kind \in {"rejected", "returned"}
       /\ call.args[1].t # "RemoteMessage"
            => /\ outcome.kind = "rejected"
               /\ outcome.error[Len(outcome.error)] = ExpectedTypeName(call.args[1])
               /\ NativeEffects = {}
       /\ (call.args[1].t = "RemoteMessage"
           /\ (call.args[1].s = "incomplete" \/ call.env = "nativeThrows"))
            => outcome.kind = "rejected"
       /\ (call.args[1].t = "RemoteMessage"
           /\ call.args[1].s = "complete" /\ call.env = "")
            => (outcome = Returned("nativeResult") /\ Cardinality(NativeEffects) = 1)

\* sendMessage of a complete RemoteMessage whose native call raised has come
\* back as a rejection after the native call was issued
C4_Witness ==
  /\ call.op = "sendMessage"
  /\ call.args[1] = OutboundMessage("complete")
  /\ call.env = "nativeThrows"
  /\ outcome.kind = "rejected"
  /\ Cardinality(NativeEffects) = 1

----------------------------------------------------------------------------
(* Properties of listeners and events (SpecEvents)                         *)

RegisterOps == {"onMessage", "onTokenRefresh"}
UnsupportedOps == {"setBackgroundMessageHandler", "useServiceWorker"}

\* the public event a native event is re-emitted as
PublicEventOf(native) ==
  IF native = "messaging_message_received" THEN "onMessage" ELSE "onTokenRefresh"

\* the last operation was the arrival of a native event
EventArrived == call.op \in NativeEventNames

Invocations == {a \in 1..Len(effects) : effects[a].kind = "invoke"}

\* the registrations a callback invoked by the last operation belongs to
InvokedRegistrations == {effects[a].reg : a \in Invocations}

\* the registrations made on the event whose disposer has not been called
Undisposed(event) ==
  {k \in 1..Len(disposers) : disposers[k].event = event /\ ~disposers[k].called}

\* C2, as stated: an inbound event invokes exactly the callbacks registered
\* on its channel whose own disposer has not been called.
C2_ExactlyUndisposedInvoked ==
  EventArrived => InvokedRegistrations = Undisposed(PublicEventOf(call.op))

\* a function or an object whose `next` member is a function
AcceptedHandler(x) == x.t = "function" \/ (x.t = "object" /\ x.n \in Callbacks)

\* C5: onMessage and onTokenRefresh accept a function or an object whose
\* `next` is a function and return a disposer; with any other argument the
\* call throws, hands out no disposer and leaves every subscription as it was.
C5_HandlerShape ==
  [][call'.op \in RegisterOps =>
       IF AcceptedHandler(call'.args[1])
       THEN /\ outcome' = Returned("disposer")
            /\ Len(disposers') = Len(disposers) + 1
            /\ Len(subscriptions'[call'.op]) = Len(subscriptions[call'.op]) + 1
       ELSE /\ outcome'.kind = "threw"
            /\ disposers' = disposers
            /\ subscriptions' = subscriptions]_vars

\* onTokenRefresh was called with an object whose `next` is not a function
\* while an onMessage listener was registered, and threw
C5_Witness ==
  /\ call.op = "onTokenRefresh"
  /\ call.args[1] = Obj("notfn")
  /\ outcome.kind = "threw"
  /\ subscriptions["onMessage"] # << >>

\* C6: setBackgroundMessageHandler and useServiceWorker always throw an
\* unsupported-operation error naming the module and the method, for every
\* argument list and in every state, issue no native call and leave the
\* subscriptions and disposers as they were.
C6_UnsupportedAlwaysThrows ==
  [][call'.op \in UnsupportedOps =>
       /\ outcome'.kind = "threw"
       /\ outcome'.error = ERROR_UNSUPPORTED_MODULE_METHOD(NAMESPACE, call'.op)
       /\ effects' = << >>
       /\ subscriptions' = subscriptions
       /\ disposers' = disposers]_vars

\* useServiceWorker was called with an argument while two listeners were
\* registered, and threw
C6_Witness ==
  /\ call.op = "useServiceWorker"
  /\ call.args # << >>
  /\ outcome.kind = "threw"
  /\ Len(subscriptions["onMessage"]) + Len(subscriptions["onTokenRefresh"]) = 2

\* the value the listeners of the public event are expected to receive
ExpectedArgument(native, payload) ==
  IF native = "messaging_message_received"
  THEN [t |-> "RemoteMessage", s |-> payload.s, n |-> "inbound"]
  ELSE payload

\* C3: every listener subscribed to a public channel when its native event
\* arrives is invoked; the onMessage listeners each receive a RemoteMessage
\* wrapping the payload of the event, the onTokenRefresh listeners the token.
C3_AllListenersReceive ==
  EventArrived =>
    /\ \A j \in 1..Len(subscriptions[PublicEventOf(call.op)]) :
         \E a \in Invocations :
            /\ effects[a].reg = subscriptions[PublicEventOf(call.op)][j].reg
            /\ effects[a].listener = subscriptions[PublicEventOf(call.op)][j].listener
    /\ \A a \in Invocations :
         /\ effects[a].name = PublicEventOf(call.op)
         /\ effects[a].args = <<ExpectedArgument(call.op, call.args[1])>>

\* two different listeners were registered on onMessage and one
\* messaging_message_received event invoked both
C3_Witness ==
  /\ call.op = "messaging_message_received"
  /\ Len(subscriptions["onMessage"]) = 2
  /\ {effects[a].listener : a \in Invocations} = {"f1", "f2"}
  /\ \A a \in Invocations : effects[a].args = <<RemoteMessage("p1")>>

\* C7: within one emit of a public event the handlers are invoked in the
\* order in which they were registered (a native event makes one emit per
\* bridge subscription).
C7_RegistrationOrder ==
  EventArrived =>
    LET m == Len(subscriptions[PublicEventOf(call.op)])
    IN \A a, b \in Invocations :
         (a < b /\ (a - 1) \div m = (b - 1) \div m) => effects[a].reg < effects[b].reg

\* after f1, f2 were registered, f1 disposed and registered again, an event
\* invoked f2 before f1
C7_Witness ==
  /\ EventArrived
  /\ Len(effects) >= 2
  /\ effects[1].listener = "f2" /\ effects[1].reg = 2
  /\ effects[2].listener = "f1" /\ effects[2].reg = 3
  /\ disposers[1].called

\* the invocations the last operation made for registration k
InvocationsOf(k) == {a \in Invocations : effects[a].reg = k}

\* C8: every construction adds one bridge subscription to each native event
\* and none is ever removed, so one inbound native event invokes every
\* subscribed listener once per facade constructed so far.
C8_OncePerFacade ==
  /\ \A e \in NativeEventNames : Len(subscriptions[e]) = Len(facades)
  /\ EventArrived =>
       \A j \in 1..Len(subscriptions[PublicEventOf(call.op)]) :
          Cardinality(InvocationsOf(subscriptions[PublicEventOf(call.op)][j].reg))
            = Len(facades)

\* with two facades constructed, one token refresh invoked a listener twice
C8_Witness ==
  /\ call.op = "messaging_token_refreshed"
  /\ Len(facades) = 2
  /\ \E k \in 1..Len(disposers) : Cardinality(InvocationsOf(k)) = 2

JsInitialisedCalls ==
  {a \in 1..Len(effects) : effects[a].kind = "native" /\ effects[a].name = "jsInitialised"}

\* C9: on iOS a construction calls the native jsInitialised exactly once and
\* only after the subscriptions to both native events have been added; on
\* any other platform jsInitialised is never called.
C9_JsInitialisedAfterSubscriptions ==
  /\ platform # "ios" => JsInitialisedCalls = {}
  /\ call.op # "constructor" => JsInitialisedCalls = {}
  /\ (call.op = "constructor" /\ platform = "ios") =>
       /\ Cardinality(JsInitialisedCalls) = 1
       /\ \A a \in JsInitialisedCalls : \A e \in NativeEventNames :
            \E b \in 1..(a - 1) :
               /\ effects[b].kind = "addListener"
               /\ effects[b].name = e
               /\ effects[b].reg = call.facade
       /\ \A e \in NativeEventNames :
            \E j \in 1..Len(subscriptions[e]) : subscriptions[e][j].reg = call.facade

\* a second facade was constructed on iOS
C9_Witness ==
  /\ call.op = "constructor"
  /\ call.facade = 2
  /\ platform = "ios"
  /\ JsInitialisedCalls # {}

====
